---- MODULE Spec2Model ----
(***************************************************************************)
(* The ZKPoll ink! contract (src/contracts/lib.rs) as a state machine.     *)
(*                                                                         *)
(* The contract's storage fields are the variables; every #[ink(message)]  *)
(* is one action that runs the method body statement by statement, so a    *)
(* `?` that returns early leaves behind whatever the statements before it  *)
(* wrote.  The environment supplies the caller and the block number.  A   *)
(* rollback that a host applies to a message returning Err is no part of   *)
(* the contract's code and is not applied here.                            *)
(*                                                                         *)
(* Bytes are numbers 0..255, a String is the sequence of its UTF-8 bytes,  *)
(* a [u8; 32] is a sequence of 32 bytes, an Option is a record with an     *)
(* is_some field and a Mapping is a function on the keys that were         *)
(* inserted.  The 32-bit unsigned maximum is scaled down to U32_MAX so     *)
(* that the checked_add failure paths are reachable.                       *)
(*                                                                         *)
(* The proof decoder computes offsets in usize, whose width and overflow   *)
(* behaviour belong to the build.  Spec runs the messages on the host      *)
(* build, as a direct call does; CodecSpec runs the decoder alone on every *)
(* build and on buffers that declare lengths up to 2^32 - 1.               *)
(***************************************************************************)
EXTENDS Integers, Sequences, FiniteSets, TLC

VARIABLES
    next_poll_id,       \* ZKPoll.next_poll_id
    polls,              \* ZKPoll.polls
    used_nullifiers,    \* ZKPoll.used_nullifiers
    poll_results,       \* ZKPoll.poll_results
    verification_key,   \* ZKPoll.verification_key
    block_number,       \* self.env().block_number()
    last,               \* the latest message and what it returned
    accepted,           \* history: the votes that returned Ok
    ended,              \* history: the polls an end_poll returned Ok for
    calls,              \* number of messages sent so far
    build,              \* the target the contract is compiled for
    decoded             \* history: the latest buffer the decoder was run on, with the outcome

vars == <<next_poll_id, polls, used_nullifiers, poll_results,
          verification_key, block_number, last, accepted, ended, calls, build, decoded>>

storage == <<next_poll_id, polls, used_nullifiers, poll_results, verification_key>>

----------------------------------------------------------------------------
(* Bounds *)

\* stands for u32::MAX (2^32 - 1): the value at which checked_add(1) fails
U32_MAX == 2
\* longest option list create_poll is called with
MaxOptions == 2
\* highest block number the chain reaches
MaxBlock == 1
\* number of messages sent to the contract
MaxCalls == 4

(* Program constants *)
NULLIFIER_LEN == 32
FIELD_BYTES == 16
MIN_BUFFER_LEN == 8
MAX_PROOF_LEN == 10000
NUM_PUBLIC_INPUTS == 4

----------------------------------------------------------------------------
(* Values of the environment and of the message arguments *)

Accounts == {"alice", "bob"}
\* the account that instantiated the contract
Deployer == "alice"

None == [is_some |-> FALSE]
Some(v) == [is_some |-> TRUE, value |-> v]

\* a [u8; 32] whose only non-zero bytes can be byte 0 and byte 16
Bytes32(b0, b16) ==
    [i \in 1..NULLIFIER_LEN |-> IF i = 1 THEN b0 ELSE IF i = FIELD_BYTES + 1 THEN b16 ELSE 0]

ZeroNullifier == Bytes32(0, 0)
Nullifiers == {ZeroNullifier, Bytes32(1, 0), Bytes32(2, 0), Bytes32(1, 1)}
MerkleRoots == {Bytes32(5, 0)}
VerificationKeys == {<<7>>}
Titles == {<<116>>}
Descriptions == {<<100>>}
\* an option list of n labels "a", "b", ...
OptionList(n) == [i \in 1..n |-> <<96 + i>>]
OptionLists == {OptionList(0), OptionList(MaxOptions)}
Durations == {0, U32_MAX}
PollIds == 1..U32_MAX
VoteChoices == 0..MaxOptions

----------------------------------------------------------------------------
(* Mapping<K, V> *)

MapGet(m, k, default) == IF k \in DOMAIN m THEN m[k] ELSE default
\* mutant: the insert keeps no other entry
MapInsertForgetting(m, k, v) == [x \in {k} |-> v]

MapInsert(m, k, v) == [x \in DOMAIN m \cup {k} |-> IF x = k THEN v ELSE m[x]]
EmptyMap == [x \in {} |-> 0]

\* mutant: the sum is dropped, the first operand comes back
checked_add_dropping_sum(a, b) == IF a + b > U32_MAX THEN None ELSE Some(a)

\* mutant: u32::wrapping_add, the sum wraps to 0
checked_add_wrapping(a, b) == Some((a + b) % (U32_MAX + 1))

\* u32::checked_add: None on wrap
checked_add(a, b) == IF a + b > U32_MAX THEN None ELSE Some(a + b)

----------------------------------------------------------------------------
(* usize arithmetic.  A u32 or usize value v is held as the pair            *)
(* <<v \div 2^16, v % 2^16>>, the first component unbounded, so that a sum   *)
(* past 2^32 - 1 is still exact.                                            *)

HALF == 65536

Word(n) == <<n \div HALF, n % HALF>>
ToNat(w) == w[1] * HALF + w[2]
WordAdd(a, b) == <<a[1] + b[1] + (a[2] + b[2]) \div HALF, (a[2] + b[2]) % HALF>>
WordLess(a, b) == a[1] < b[1] \/ (a[1] = b[1] /\ a[2] < b[2])

\* the targets: usize of 32 bits (wasm32, riscv32, a 32-bit host) or of 64 bits,
\* built with overflow checks (the addition panics) or without (it wraps)
Builds ==
    { [usize_bits |-> 32, overflow_checks |-> TRUE],
      [usize_bits |-> 32, overflow_checks |-> FALSE],
      [usize_bits |-> 64, overflow_checks |-> TRUE],
      [usize_bits |-> 64, overflow_checks |-> FALSE] }

\* the build of an off-chain test run on a 64-bit host
HostBuild == [usize_bits |-> 64, overflow_checks |-> TRUE]

\* the call did not return: it panicked
Panic == [is_some |-> FALSE, panic |-> TRUE]

\* x + y on usize of build b.  The operands are a u32 and offsets below
\* 2^32 + 2^16, so a sum passes usize::MAX only when usize has 32 bits.
usize_add(b, x, y) ==
    IF b.usize_bits = 32 /\ WordAdd(x, y)[1] >= HALF
    THEN IF b.overflow_checks THEN Panic
         ELSE Some(<<WordAdd(x, y)[1] % HALF, WordAdd(x, y)[2]>>)
    ELSE Some(WordAdd(x, y))

\* the values of a usize, of a byte string and of a list of strings
Usizes == Nat \X Nat
ByteStrings == Seq(0..255)
Strings == Seq(ByteStrings)

\* the rest of a function body, as a function of the value of the step before
\* it: it runs when that step returned a value, and not when it failed or panicked
and_then(step, rest) == IF step.is_some THEN rest[step.value] ELSE step

----------------------------------------------------------------------------
(* Proof codec and verifier: pure functions of their arguments *)

Digit(c) == c - 48
IsDigit(c) == c >= 48 /\ c <= 57

\* u32 / u128 ::to_string: decimal, no sign, no leading zeros
RECURSIVE to_string(_)
to_string(n) == IF n < 10 THEN <<48 + n>> ELSE to_string(n \div 10) \o <<48 + (n % 10)>>

\* u32::from_le_bytes of the four bytes at `offset` (0-based), as usize
from_le_bytes(bytes, offset) ==
    << bytes[offset + 3] + 256 * bytes[offset + 4],
       bytes[offset + 1] + 256 * bytes[offset + 2] >>

\* the four indexed reads proof_bytes[offset] .. proof_bytes[offset + 3]: an
\* index past the end panics
read_u32(b, proof_bytes, offset) ==
    and_then(usize_add(b, offset, Word(3)), [top \in Usizes |->
    IF WordLess(offset, Word(Len(proof_bytes))) /\ WordLess(top, Word(Len(proof_bytes)))
    THEN Some(from_le_bytes(proof_bytes, ToNat(offset)))
    ELSE Panic])

\* bytes[from..to] (0-based, `to` exclusive)
Slice(bytes, from, to) == [i \in 1..(to - from) |-> bytes[from + i]]

\* proof_bytes[from..to] as Rust evaluates it: a range that starts after its end
\* or ends past the buffer panics
index_range(proof_bytes, from, to) ==
    IF WordLess(to, from) \/ WordLess(Word(Len(proof_bytes)), to) THEN Panic
    ELSE Some(Slice(proof_bytes, ToNat(from), ToNat(to)))

IsCont(b) == b >= 128 /\ b <= 191

\* core::str::from_utf8(bytes).is_ok()
RECURSIVE from_utf8_ok(_)
from_utf8_ok(bytes) ==
    IF bytes = <<>> THEN TRUE
    ELSE LET b == bytes[1]
             n == Len(bytes)
             c(i) == i <= n /\ IsCont(bytes[i])
             rest(k) == from_utf8_ok(SubSeq(bytes, k + 1, n))
         IN  IF b <= 127 THEN rest(1)
             ELSE IF b >= 194 /\ b <= 223 THEN c(2) /\ rest(2)
             ELSE IF b = 224 THEN n >= 2 /\ bytes[2] >= 160 /\ bytes[2] <= 191 /\ c(3) /\ rest(3)
             ELSE IF (b >= 225 /\ b <= 236) \/ b = 238 \/ b = 239 THEN c(2) /\ c(3) /\ rest(3)
             ELSE IF b = 237 THEN n >= 2 /\ bytes[2] >= 128 /\ bytes[2] <= 159 /\ c(3) /\ rest(3)
             ELSE IF b = 240 THEN n >= 2 /\ bytes[2] >= 144 /\ bytes[2] <= 191 /\ c(3) /\ c(4) /\ rest(4)
             ELSE IF b >= 241 /\ b <= 243 THEN c(2) /\ c(3) /\ c(4) /\ rest(4)
             ELSE IF b = 244 THEN n >= 2 /\ bytes[2] >= 128 /\ bytes[2] <= 143 /\ c(3) /\ c(4) /\ rest(4)
             ELSE FALSE

\* the loop of deserialize_proof: `for _ in 0..num_inputs`, one input per turn
RECURSIVE read_public_inputs(_, _, _, _, _)
read_public_inputs(b, proof_bytes, offset, num_inputs, public_inputs) ==
    IF Word(Len(public_inputs)) = num_inputs THEN Some(public_inputs)
    ELSE
    and_then(usize_add(b, offset, Word(4)), [offset1 \in Usizes |->
    IF WordLess(Word(Len(proof_bytes)), offset1) THEN None
    ELSE
    and_then(read_u32(b, proof_bytes, offset), [input_len \in Usizes |->
    and_then(usize_add(b, offset1, input_len), [offset2 \in Usizes |->
    IF WordLess(Word(Len(proof_bytes)), offset2) THEN None
    ELSE
    and_then(index_range(proof_bytes, offset1, offset2), [input_bytes \in ByteStrings |->
    IF ~from_utf8_ok(input_bytes) THEN None
    ELSE read_public_inputs(b, proof_bytes, offset2, num_inputs,
                            Append(public_inputs, input_bytes))])])])])

\* Ok(NoirProof) as Some([proof_bytes, public_inputs]), Err(()) as None, and
\* Panic when an addition or an index panics, on build b
deserialize_proof(b, proof_bytes) ==
    IF Len(proof_bytes) < MIN_BUFFER_LEN THEN None
    ELSE
    and_then(read_u32(b, proof_bytes, Word(0)), [proof_len \in Usizes |->
    and_then(usize_add(b, Word(0), Word(4)), [offset1 \in Usizes |->
    and_then(usize_add(b, offset1, proof_len), [offset_proof_len \in Usizes |->
    and_then(usize_add(b, offset_proof_len, Word(4)), [needed \in Usizes |->
    IF WordLess(Word(Len(proof_bytes)), needed) THEN None
    ELSE
    and_then(index_range(proof_bytes, offset1, offset_proof_len), [proof_data \in ByteStrings |->
    and_then(read_u32(b, proof_bytes, offset_proof_len), [num_inputs \in Usizes |->
    and_then(usize_add(b, offset_proof_len, Word(4)), [offset3 \in Usizes |->
    and_then(read_public_inputs(b, proof_bytes, offset3, num_inputs, <<>>), [inputs \in Strings |->
    Some([proof_bytes |-> proof_data, public_inputs |-> inputs])])])])])])])])])

\* the u128 assembled from the first 16 bytes, least significant byte first
RECURSIVE le_value(_, _)
le_value(bytes, i) ==
    IF i > FIELD_BYTES \/ i > Len(bytes) THEN 0 ELSE bytes[i] + 256 * le_value(bytes, i + 1)

bytes_to_field_string(bytes) == to_string(le_value(bytes, 1))

construct_public_inputs(poll, proof_data) ==
    << bytes_to_field_string(poll.merkle_root),
       bytes_to_field_string(proof_data.nullifier),
       to_string(poll.id),
       to_string(Len(poll.options)) >>

validate_public_inputs(proof_inputs, expected_inputs) ==
    /\ Len(proof_inputs) = Len(expected_inputs)
    /\ \A i \in 1..Len(proof_inputs) : proof_inputs[i] = expected_inputs[i]

\* the decimal digits of u128::MAX
U128MaxDigits ==
    <<3,4,0,2,8,2,3,6,6,9,2,0,9,3,8,4,6,3,4,6,3,3,7,4,6,0,7,4,3,1,7,6,8,2,1,1,4,5,5>>

RECURSIVE StripZeros(_)
StripZeros(ds) == IF ds # <<>> /\ ds[1] = 0 THEN StripZeros(Tail(ds)) ELSE ds

RECURSIVE LexLeq(_, _)
LexLeq(a, b) ==
    IF a = <<>> THEN TRUE
    ELSE IF a[1] # b[1] THEN a[1] < b[1]
    ELSE LexLeq(Tail(a), Tail(b))

\* input.parse::<u64>().is_ok() \/ input.parse::<u128>().is_ok(): an optional '+',
\* then at least one digit, all digits, value at most u128::MAX
parses_as_unsigned(input) ==
    LET body == IF input # <<>> /\ input[1] = 43 THEN Tail(input) ELSE input
        ds   == StripZeros([i \in 1..Len(body) |-> Digit(body[i])])
    IN  /\ body # <<>>
        /\ \A i \in 1..Len(body) : IsDigit(body[i])
        /\ \/ Len(ds) < Len(U128MaxDigits)
           \/ Len(ds) = Len(U128MaxDigits) /\ LexLeq(ds, U128MaxDigits)

basic_proof_validation(proof) ==
    IF proof.proof_bytes = <<>> \/ Len(proof.proof_bytes) > MAX_PROOF_LEN THEN FALSE
    ELSE IF Len(proof.public_inputs) # NUM_PUBLIC_INPUTS THEN FALSE
    ELSE \A i \in 1..Len(proof.public_inputs) :
            /\ proof.public_inputs[i] # <<>>
            /\ parses_as_unsigned(proof.public_inputs[i])

(* The proof buffers *)

le32(n) == <<n % 256, (n \div 256) % 256, (n \div 65536) % 256, (n \div 16777216) % 256>>

RECURSIVE EncodeInputs(_)
EncodeInputs(inputs) ==
    IF inputs = <<>> THEN <<>>
    ELSE le32(Len(inputs[1])) \o inputs[1] \o EncodeInputs(Tail(inputs))

\* the layout deserialize_proof reads
EncodeProof(proof, inputs) ==
    le32(Len(proof)) \o proof \o le32(Len(inputs)) \o EncodeInputs(inputs)

\* the buffer a prover submits for (root, nullifier as a number, poll id, option count)
ProofFor(root, nf, id, n) ==
    EncodeProof(<<1>>, <<bytes_to_field_string(root), to_string(nf), to_string(id), to_string(n)>>)

WellFormedProofs ==
    {ProofFor(r, le_value(nf, 1), id, n) :
        r \in MerkleRoots, nf \in Nullifiers \ {ZeroNullifier}, id \in PollIds, n \in {MaxOptions}}

MalformedProofs ==
    { <<>>,                                             \* shorter than 8 bytes
      le32(9) \o <<1>> \o le32(0),                      \* proof_len past the end
      EncodeProof(<<>>, <<<<53>>, <<49>>, <<49>>, <<50>>>>)   \* empty proof bytes
    }

ProofBuffers == WellFormedProofs \cup MalformedProofs

\* a length field as its four bytes, least significant first
LengthFields ==
    { <<0, 0, 0, 0>>, <<1, 0, 0, 0>>, <<2, 0, 0, 0>>,
      <<255, 255, 255, 127>>,            \* 2^31 - 1
      <<0, 0, 0, 128>>,                  \* 2^31
      <<248, 255, 255, 255>>,            \* 2^32 - 8
      <<252, 255, 255, 255>>,            \* 2^32 - 4
      <<255, 255, 255, 255>> }           \* 2^32 - 1

\* the buffers the decoder is run on: those submitted with votes, and those
\* that are short or declare lengths up to 2^32 - 1
CodecBuffers ==
    ProofBuffers
    \cup { <<1, 0, 0, 0, 1, 0, 0>> }                                       \* 7 bytes
    \cup { f \o <<0, 0, 0, 0>> : f \in LengthFields }                        \* proof_len = f
    \cup { f \o <<1>> \o <<0, 0, 0, 0>> : f \in LengthFields }
    \cup { <<1, 0, 0, 0>> \o <<1>> \o f : f \in LengthFields }               \* num_inputs = f
    \cup { <<1, 0, 0, 0>> \o <<1>> \o <<1, 0, 0, 0>> \o f \o <<49>> : f \in LengthFields }  \* input_len = f

\* deserialize_proof of every buffer on every build, computed once
deserialized == [b \in Builds |-> [proof_bytes \in CodecBuffers |-> deserialize_proof(b, proof_bytes)]]

(* The verifier *)

\* mutant: a development build that accepts a proof without a verification key
verify_noir_proof_without_key(proof, key) == basic_proof_validation(proof)

verify_noir_proof(proof, key) ==
    IF ~basic_proof_validation(proof) THEN FALSE
    ELSE IF ~key.is_some THEN FALSE
    ELSE TRUE

\* mutant: the missing key is noticed before the buffer is decoded
verify_zk_proof_key_first(poll, proof_data, key) ==
    IF ~key.is_some THEN Some(FALSE)
    ELSE LET noir_proof == deserialized[build][proof_data.proof]
         IN  IF noir_proof = Panic THEN Panic
             ELSE IF ~noir_proof.is_some THEN None
             ELSE Some(/\ validate_public_inputs(noir_proof.value.public_inputs,
                                                 construct_public_inputs(poll, proof_data))
                       /\ verify_noir_proof(noir_proof.value, key))

\* Result<bool>: Ok(b) as Some(b), Err(ProofDeserializationError) as None; Panic
\* when the decoder panics
verify_zk_proof(poll, proof_data, key) ==
    LET noir_proof == deserialized[build][proof_data.proof]
    IN  IF noir_proof = Panic THEN Panic
        ELSE IF ~noir_proof.is_some THEN None
        ELSE LET expected_public_inputs == construct_public_inputs(poll, proof_data)
             IN  IF ~validate_public_inputs(noir_proof.value.public_inputs, expected_public_inputs)
                 THEN Some(FALSE)
                 ELSE Some(verify_noir_proof(noir_proof.value, key))

\* mutant: the negation is dropped
validate_nullifier_format_not_negated(nullifier) ==
    \A i \in 1..Len(nullifier) : nullifier[i] = 0

validate_nullifier_format(nullifier) ==
    ~(\A i \in 1..Len(nullifier) : nullifier[i] = 0)

----------------------------------------------------------------------------
(* Arguments of vote *)

ProofDatas ==
    [proof : ProofBuffers, nullifier : Nullifiers, vote_choice : VoteChoices]


----------------------------------------------------------------------------
(* The messages.  Each operator runs the method body on the current storage *)
(* and yields the returned Result with the storage the body leaves behind.  *)

Ok(v) == [is_ok |-> TRUE, value |-> v]
Err(e) == [is_ok |-> FALSE, error |-> e]
Unit == <<>>
\* the message did not return: it panicked
Panicked == [is_ok |-> FALSE, panicked |-> TRUE]

set_verification_key(key) ==
    [ret |-> Ok(Unit), verification_key |-> Some(key)]

create_poll(caller, title, description, options, merkle_root, duration_blocks) ==
    LET current_block == block_number
        poll_id == next_poll_id
        end_block == checked_add(current_block, duration_blocks)
    IN  IF ~end_block.is_some
        THEN [ret |-> Err("ArithmeticOverflow"), polls |-> polls, next_poll_id |-> next_poll_id]
        ELSE LET poll == [id |-> poll_id, title |-> title, description |-> description,
                          options |-> options, merkle_root |-> merkle_root,
                          creator |-> caller, end_block |-> end_block.value,
                          is_active |-> TRUE, total_votes |-> 0]
                 polls1 == MapInsert(polls, poll_id, poll)
                 next == checked_add(next_poll_id, 1)
             IN  IF ~next.is_some
                 THEN [ret |-> Err("ArithmeticOverflow"), polls |-> polls1,
                       next_poll_id |-> next_poll_id]
                 ELSE [ret |-> Ok(poll_id), polls |-> polls1, next_poll_id |-> next.value]

\* mutant: the ledger is read under the id counter instead of the poll's id
is_nullifier_used_wrong_key(poll_id, nullifier) ==
    MapGet(used_nullifiers, <<next_poll_id, nullifier>>, FALSE)

is_nullifier_used(poll_id, nullifier) == MapGet(used_nullifiers, <<poll_id, nullifier>>, FALSE)

\* mutant: the end block itself is already too late
poll_ended_at_end_block(poll) == ~poll.is_active \/ block_number >= poll.end_block

\* the poll is closed for votes: ended by its creator, or past its end block
poll_ended(poll) == ~poll.is_active \/ block_number > poll.end_block

\* mutant: off by one, the option count itself passes as an index
invalid_vote_choice_off_by_one(poll, proof_data) ==
    proof_data.vote_choice > Len(poll.options)

invalid_vote_choice(poll, proof_data) == proof_data.vote_choice >= Len(poll.options)

vote(poll_id, proof_data) ==
    LET out(r, u, c, p) ==
            [ret |-> r, used_nullifiers |-> u, poll_results |-> c, polls |-> p]
        fail(e) == out(Err(e), used_nullifiers, poll_results, polls)
    IN  IF poll_id \notin DOMAIN polls THEN fail("PollNotFound")
        ELSE LET poll == polls[poll_id] IN
        IF poll_ended(poll) THEN fail("PollEnded")
        ELSE IF is_nullifier_used(poll_id, proof_data.nullifier)
             THEN fail("NullifierAlreadyUsed")
        ELSE IF invalid_vote_choice(poll, proof_data) THEN fail("InvalidVoteChoice")
        ELSE IF ~validate_nullifier_format(proof_data.nullifier)
             THEN fail("InvalidNullifierFormat")
        ELSE LET verified == verify_zk_proof(poll, proof_data, verification_key) IN
        IF verified = Panic THEN out(Panicked, used_nullifiers, poll_results, polls)
        ELSE IF ~verified.is_some THEN fail("ProofDeserializationError")
        ELSE IF ~verified.value THEN fail("InvalidProof")
        ELSE LET used1 == MapInsert(used_nullifiers, <<poll_id, proof_data.nullifier>>, TRUE)
                 current_votes == MapGet(poll_results, <<poll_id, proof_data.vote_choice>>, 0)
                 new_vote_count == checked_add(current_votes, 1)
             IN
        IF ~new_vote_count.is_some
        THEN out(Err("ArithmeticOverflow"), used1, poll_results, polls)
        ELSE LET results1 == MapInsert(poll_results, <<poll_id, proof_data.vote_choice>>,
                                       new_vote_count.value)
                 total == checked_add(poll.total_votes, 1)
             IN
        IF ~total.is_some
        THEN out(Err("ArithmeticOverflow"), used1, results1, polls)
        ELSE out(Ok(Unit), used1, results1,
                 MapInsert(polls, poll_id, [poll EXCEPT !.total_votes = total.value]))

end_poll(caller, poll_id) ==
    IF poll_id \notin DOMAIN polls THEN [ret |-> Err("PollNotFound"), polls |-> polls]
    ELSE LET poll == polls[poll_id] IN
         IF poll.creator # caller THEN [ret |-> Err("NotPollCreator"), polls |-> polls]
         ELSE [ret |-> Ok(Unit),
               polls |-> MapInsert(polls, poll_id, [poll EXCEPT !.is_active = FALSE])]

(* The read-only messages *)

get_poll(poll_id) == IF poll_id \in DOMAIN polls THEN Some(polls[poll_id]) ELSE None

get_results(poll_id) ==
    IF poll_id \notin DOMAIN polls THEN None
    ELSE Some([i \in 1..Len(polls[poll_id].options) |->
                  MapGet(poll_results, <<poll_id, i - 1>>, 0)])

get_verification_key == verification_key

has_verification_key == verification_key.is_some

----------------------------------------------------------------------------
(* The state machine *)

\* the record of the latest call: the message, the poll it named and what it returned
Call(op, poll_id, ret) == [op |-> op, poll_id |-> poll_id, ret |-> ret]

\* new() leaves the key unset, new_with_vk(key) sets it
InitContract ==
    /\ next_poll_id = 1
    /\ polls = EmptyMap
    /\ used_nullifiers = EmptyMap
    /\ poll_results = EmptyMap
    /\ verification_key \in {None} \cup {Some(k) : k \in VerificationKeys}
    /\ block_number = 0
    /\ last = Call("new", 0, Ok(Unit))
    /\ accepted = {}
    /\ ended = {}
    /\ calls = 0
    /\ decoded = None

\* the contract on the host build
Init == InitContract /\ build = HostBuild

SetVerificationKey(caller, key) ==
    LET r == set_verification_key(key) IN
    /\ calls < MaxCalls
    /\ calls' = calls + 1
    /\ verification_key' = r.verification_key
    /\ last' = Call("set_verification_key", 0, r.ret)
    /\ UNCHANGED <<next_poll_id, polls, used_nullifiers, poll_results, block_number,
                   accepted, ended, build, decoded>>

CreatePoll(caller, title, description, options, merkle_root, duration_blocks) ==
    LET r == create_poll(caller, title, description, options, merkle_root, duration_blocks) IN
    /\ calls < MaxCalls
    /\ calls' = calls + 1
    /\ polls' = r.polls
    /\ next_poll_id' = r.next_poll_id
    /\ last' = Call("create_poll", next_poll_id, r.ret)
    /\ UNCHANGED <<used_nullifiers, poll_results, verification_key, block_number,
                   accepted, ended, build, decoded>>

Vote(poll_id, proof_data) ==
    LET r == vote(poll_id, proof_data) IN
    /\ calls < MaxCalls
    /\ calls' = calls + 1
    /\ used_nullifiers' = r.used_nullifiers
    /\ poll_results' = r.poll_results
    /\ polls' = r.polls
    /\ last' = Call("vote", poll_id, r.ret)
    /\ accepted' = IF r.ret.is_ok
                   THEN accepted \cup {[poll_id |-> poll_id, nullifier |-> proof_data.nullifier,
                                        proof |-> proof_data.proof]}
                   ELSE accepted
    /\ UNCHANGED <<next_poll_id, verification_key, block_number, ended, build, decoded>>

EndPoll(caller, poll_id) ==
    LET r == end_poll(caller, poll_id) IN
    /\ calls < MaxCalls
    /\ calls' = calls + 1
    /\ polls' = r.polls
    /\ last' = Call("end_poll", poll_id, r.ret)
    /\ ended' = IF r.ret.is_ok THEN ended \cup {poll_id} ELSE ended
    /\ UNCHANGED <<next_poll_id, used_nullifiers, poll_results, verification_key,
                   block_number, accepted, build, decoded>>

\* the chain produces the next block
AdvanceBlock ==
    /\ block_number < MaxBlock
    /\ block_number' = block_number + 1
    /\ UNCHANGED <<storage, last, accepted, ended, calls, build, decoded>>

Next ==
    \/ \E caller \in Accounts, key \in VerificationKeys : SetVerificationKey(caller, key)
    \/ \E caller \in Accounts, title \in Titles, description \in Descriptions,
          options \in OptionLists, merkle_root \in MerkleRoots, duration \in Durations :
            CreatePoll(caller, title, description, options, merkle_root, duration)
    \/ \E poll_id \in PollIds, proof_data \in ProofDatas : Vote(poll_id, proof_data)
    \/ \E caller \in Accounts, poll_id \in PollIds : EndPoll(caller, poll_id)
    \/ AdvanceBlock

Spec == Init /\ [][Next]_vars

----------------------------------------------------------------------------
(* The decoder alone, on every build *)

CodecInit == InitContract /\ build \in Builds

\* verify_zk_proof hands the bytes of a vote to the decoder
Decode(proof_bytes) ==
    /\ decoded' = Some([proof_bytes |-> proof_bytes, result |-> deserialize_proof(build, proof_bytes)])
    /\ UNCHANGED <<storage, block_number, last, accepted, ended, calls, build>>

CodecNext == \E proof_bytes \in CodecBuffers : Decode(proof_bytes)

CodecSpec == CodecInit /\ [][CodecNext]_vars


----------------------------------------------------------------------------
(* Properties.  A property that speaks of "every vote call" is stated over  *)
(* every argument of the message, applied to the state it is called in.    *)

RECURSIVE SumSeq(_)
SumSeq(seq) == IF seq = <<>> THEN 0 ELSE seq[1] + SumSeq(Tail(seq))

\* the step is a message call (every call is counted)
IsCall(op) == calls' = calls + 1 /\ last'.op = op

\* what a vote leaves behind is what was there
VoteWritesNothing(r) ==
    /\ r.used_nullifiers = used_nullifiers
    /\ r.poll_results = poll_results
    /\ r.polls = polls

\* the poll takes votes: its flag is set and the chain is not past its end block
Open(p) == polls[p].is_active /\ block_number <= polls[p].end_block

Consumed(p, n) == <<p, n>> \in DOMAIN used_nullifiers /\ used_nullifiers[<<p, n>>]

\* C1: for every stored poll, the counters get_results returns add up to the
\* poll's total_votes, whatever calls were made before, failed ones included.
C1_ResultsSumToTotal ==
    \A p \in DOMAIN polls :
        SumSeq(get_results(p).value) = get_poll(p).value.total_votes

\* C2 as claimed: once vote(p, n, .) has returned Ok, every later vote with the
\* same p and n returns NullifierAlreadyUsed, whichever option and proof it names.
C2_RepeatIsNullifierAlreadyUsed ==
    \A a \in accepted : \A pd \in ProofDatas :
        pd.nullifier = a.nullifier =>
            vote(a.poll_id, pd).ret = Err("NullifierAlreadyUsed")

\* C2 as amended: once vote(p, n, .) has returned Ok, every later vote with the
\* same p and n fails and writes nothing: with NullifierAlreadyUsed while the poll
\* is active and not past its end block, with PollEnded once it is not.
C2_RepeatIsRejected ==
    \A a \in accepted : \A pd \in ProofDatas :
        pd.nullifier = a.nullifier =>
            LET r == vote(a.poll_id, pd) IN
            /\ a.poll_id \in DOMAIN polls
            /\ r.ret = IF Open(a.poll_id) THEN Err("NullifierAlreadyUsed")
                                          ELSE Err("PollEnded")
            /\ VoteWritesNothing(r)

\* a vote was accepted and the same nullifier, the only one consumed for that
\* poll, was then refused as already used
C2_Witness ==
    \E a \in accepted :
        /\ last = Call("vote", a.poll_id, Err("NullifierAlreadyUsed"))
        /\ {k \in DOMAIN used_nullifiers : k[1] = a.poll_id} = {<<a.poll_id, a.nullifier>>}

\* C3: a vote call that returns an error leaves the nullifier ledger, the result
\* counters and the poll table exactly as they were before the call.
C3_FailedVoteWritesNothing ==
    [][(IsCall("vote") /\ ~last'.ret.is_ok)
          => UNCHANGED <<used_nullifiers, poll_results, polls>>]_vars

\* C4: a set_verification_key call by an account other than the contract's
\* owner leaves the stored verification key unchanged.
C4_OnlyOwnerSetsKey ==
    [][\A caller \in Accounts \ {Deployer}, key \in VerificationKeys :
          SetVerificationKey(caller, key) => verification_key' = verification_key]_vars

\* C5: while no verification key is stored, no vote call returns Ok on any poll,
\* none changes a nullifier, a counter or total_votes, and every vote that passes
\* the checks before proof verification is rejected with InvalidProof or
\* ProofDeserializationError.
C5_NoKeyNoVote ==
    ~has_verification_key =>
        \A p \in PollIds, pd \in ProofDatas :
            LET r == vote(p, pd) IN
            /\ ~r.ret.is_ok
            /\ VoteWritesNothing(r)
            /\ ( /\ p \in DOMAIN polls
                 /\ Open(p)
                 /\ ~Consumed(p, pd.nullifier)
                 /\ pd.vote_choice < Len(polls[p].options)
                 /\ pd.nullifier # ZeroNullifier )
               => r.ret.error \in {"InvalidProof", "ProofDeserializationError"}

\* no key is stored and a vote with a well-formed proof for an open poll was
\* turned down as InvalidProof
C5_Witness ==
    /\ ~has_verification_key
    /\ last.op = "vote" /\ last.ret = Err("InvalidProof")
    /\ last.poll_id \in DOMAIN polls /\ Open(last.poll_id)

\* C6 as claimed: a vote whose option index is at least the poll's option count
\* returns InvalidVoteChoice and writes nothing.
C6_BadChoiceIsInvalidVoteChoice ==
    \A p \in DOMAIN polls, pd \in ProofDatas :
        pd.vote_choice >= Len(polls[p].options) =>
            LET r == vote(p, pd) IN
            r.ret = Err("InvalidVoteChoice") /\ VoteWritesNothing(r)

\* C6 as amended: a vote whose option index is at least the poll's option count
\* always fails and writes nothing; it returns InvalidVoteChoice when the poll is
\* open and the nullifier is not consumed for it, PollEnded when the poll is not
\* open, and NullifierAlreadyUsed when the poll is open and the nullifier consumed.
C6_BadChoiceIsRejected ==
    \A p \in DOMAIN polls, pd \in ProofDatas :
        pd.vote_choice >= Len(polls[p].options) =>
            LET r == vote(p, pd) IN
            /\ VoteWritesNothing(r)
            /\ r.ret = IF ~Open(p) THEN Err("PollEnded")
                       ELSE IF Consumed(p, pd.nullifier) THEN Err("NullifierAlreadyUsed")
                       ELSE Err("InvalidVoteChoice")

\* a vote on an open poll that has options was refused for its option index
C6_Witness ==
    /\ last.op = "vote" /\ last.ret = Err("InvalidVoteChoice")
    /\ last.poll_id \in DOMAIN polls /\ Open(last.poll_id)
    /\ polls[last.poll_id].options # <<>>

\* C7 as claimed: a vote whose nullifier is the all-zero value returns
\* InvalidNullifierFormat.
C7_ZeroNullifierIsInvalidFormat ==
    \A p \in DOMAIN polls, pd \in ProofDatas :
        pd.nullifier = ZeroNullifier =>
            vote(p, pd).ret = Err("InvalidNullifierFormat")

\* C7 as amended: a vote whose nullifier is the all-zero value always fails and
\* writes nothing; it returns InvalidNullifierFormat when the poll exists, is open
\* and has the option, and otherwise the error of the earlier check that fails
\* (PollNotFound, PollEnded, InvalidVoteChoice).
C7_ZeroNullifierIsRejected ==
    \A p \in PollIds, pd \in ProofDatas :
        pd.nullifier = ZeroNullifier =>
            LET r == vote(p, pd) IN
            /\ VoteWritesNothing(r)
            /\ r.ret = IF p \notin DOMAIN polls THEN Err("PollNotFound")
                       ELSE IF ~Open(p) THEN Err("PollEnded")
                       ELSE IF pd.vote_choice >= Len(polls[p].options)
                            THEN Err("InvalidVoteChoice")
                       ELSE Err("InvalidNullifierFormat")

\* a vote was refused for its nullifier's format, and nothing is consumed for
\* the all-zero nullifier
C7_Witness ==
    /\ last.op = "vote" /\ last.ret = Err("InvalidNullifierFormat")
    /\ ~is_nullifier_used(last.poll_id, ZeroNullifier)

\* C8: a vote made when the block number is greater than the poll's end_block
\* returns PollEnded whatever is_active says, and leaves the poll record (so
\* is_active) as it was; a vote at a block number equal to end_block on an active
\* poll does not return PollEnded.
C8_ExpiryGatesVotes ==
    \A p \in DOMAIN polls, pd \in ProofDatas :
        LET r == vote(p, pd) IN
        /\ block_number > polls[p].end_block =>
              r.ret = Err("PollEnded") /\ r.polls = polls
        /\ (block_number = polls[p].end_block /\ polls[p].is_active) =>
              r.ret # Err("PollEnded")

\* a vote on a poll past its end block was refused with PollEnded, and the poll,
\* which no end_poll has closed, still has is_active set
C8_Witness ==
    /\ last.op = "vote" /\ last.ret = Err("PollEnded")
    /\ last.poll_id \in DOMAIN polls
    /\ last.poll_id \notin ended
    /\ polls[last.poll_id].is_active
    /\ block_number > polls[last.poll_id].end_block

\* C9: is_active turns false only in an end_poll call by the poll's creator;
\* end_poll by another caller returns NotPollCreator and leaves the poll table as
\* it was; end_poll on an unknown id returns PollNotFound; and once end_poll has
\* returned Ok for a poll, every vote on it returns PollEnded.
C9_EndOnlyByCreator ==
    /\ [](\A caller \in Accounts, p \in PollIds :
            LET r == end_poll(caller, p) IN
            /\ p \notin DOMAIN polls => r.ret = Err("PollNotFound")
            /\ (p \in DOMAIN polls /\ caller # polls[p].creator) =>
                  r.ret = Err("NotPollCreator") /\ r.polls = polls)
    /\ [](\A p \in ended, pd \in ProofDatas : vote(p, pd).ret = Err("PollEnded"))
    /\ [][\A p \in DOMAIN polls :
            (polls[p].is_active /\ p \in DOMAIN polls' /\ ~polls'[p].is_active)
               => EndPoll(polls[p].creator, p) /\ last'.ret.is_ok]_vars

\* C10: poll ids are handed out in order from 1: a create_poll that returns Ok
\* returns the counter's value and raises the counter by one, no other call moves
\* the counter, every stored poll's id field is its key, no create_poll call
\* changes a record that is already stored, and the counter is greater than every
\* stored id.
C10_IdsUniqueAndMonotone ==
    /\ [](\A id \in DOMAIN polls : polls[id].id = id /\ id < next_poll_id)
    /\ [][IF IsCall("create_poll") /\ last'.ret.is_ok
          THEN last'.ret.value = next_poll_id /\ next_poll_id' = next_poll_id + 1
          ELSE next_poll_id' = next_poll_id]_vars
    /\ [][IsCall("create_poll") => \A id \in DOMAIN polls : polls'[id] = polls[id]]_vars

\* C11: a create_poll call that returns ArithmeticOverflow, whether from the end
\* block or from the id counter, stores or overwrites no poll record and leaves
\* next_poll_id as it was.
C11_OverflowingCreateWritesNothing ==
    [][(IsCall("create_poll") /\ last'.ret = Err("ArithmeticOverflow"))
          => UNCHANGED <<polls, next_poll_id>>]_vars

\* C12: a nullifier that is_nullifier_used reports as consumed for a poll is
\* reported as consumed after every later step, whatever the step is.
C12_ConsumedStaysConsumed ==
    [][\A p \in PollIds, n \in Nullifiers :
          is_nullifier_used(p, n) => is_nullifier_used(p, n)']_vars

\* a vote was accepted, the poll was then ended by its creator, and the
\* nullifier of the vote is still reported as consumed
C12_Witness ==
    \E a \in accepted :
        /\ last = Call("end_poll", a.poll_id, Ok(Unit))
        /\ is_nullifier_used(a.poll_id, a.nullifier)

\* the mapping m with v stored under k and every other entry as it is
With(m, k, v) == [x \in DOMAIN m \cup {k} |-> IF x = k THEN v ELSE m[x]]

\* C13: a vote on poll p that returns Ok changes exactly three things, for one
\* nullifier n and one option opt: (p, n) turns from not consumed to consumed,
\* the counter of (p, opt) rises by one and p's total_votes rises by one.  Every
\* other ledger entry, counter and poll record, p's other fields, next_poll_id
\* and the verification key stay as they are; and no step of any kind removes a
\* record from the poll table.
C13_AcceptedVoteFrame ==
    /\ [][(IsCall("vote") /\ last'.ret.is_ok) =>
            LET p == last'.poll_id IN
            /\ p \in DOMAIN polls
            /\ \E n \in Nullifiers, opt \in VoteChoices :
                  /\ ~is_nullifier_used(p, n)
                  /\ used_nullifiers' = With(used_nullifiers, <<p, n>>, TRUE)
                  /\ opt < Len(polls[p].options)
                  /\ poll_results' =
                        With(poll_results, <<p, opt>>,
                             (IF <<p, opt>> \in DOMAIN poll_results
                              THEN poll_results[<<p, opt>>] ELSE 0) + 1)
            /\ polls' = [polls EXCEPT ![p].total_votes = @ + 1]
            /\ UNCHANGED <<next_poll_id, verification_key>>]_vars
    /\ [][DOMAIN polls \subseteq DOMAIN polls']_vars

\* the latest call is an accepted vote whose nullifier had already been accepted
\* on another poll, and both are consumed
C13_Witness ==
    \E a \in accepted, b \in accepted :
        /\ a.poll_id # b.poll_id /\ a.nullifier = b.nullifier
        /\ last = Call("vote", b.poll_id, Ok(Unit))
        /\ is_nullifier_used(a.poll_id, a.nullifier)
        /\ is_nullifier_used(b.poll_id, b.nullifier)
        /\ polls[a.poll_id].total_votes = 1 /\ polls[b.poll_id].total_votes = 1

\* the vote passes every check that comes before the writes
PassesChecks(p, pd) ==
    /\ p \in DOMAIN polls
    /\ Open(p)
    /\ ~Consumed(p, pd.nullifier)
    /\ pd.vote_choice < Len(polls[p].options)
    /\ pd.nullifier # ZeroNullifier
    /\ verify_zk_proof(polls[p], pd, verification_key) = Some(TRUE)

\* C14: a vote that gets as far as incrementing a counter that holds the 32-bit
\* maximum returns ArithmeticOverflow and leaves every counter as it is; no
\* counter ever exceeds the maximum, and no step of any kind removes or lowers
\* a counter.
C14_CounterNeverWraps ==
    /\ [](\A k \in DOMAIN poll_results : poll_results[k] <= U32_MAX)
    /\ [](\A p \in PollIds, pd \in ProofDatas :
            (PassesChecks(p, pd) /\ MapGet(poll_results, <<p, pd.vote_choice>>, 0) = U32_MAX)
               => LET r == vote(p, pd) IN
                  r.ret = Err("ArithmeticOverflow") /\ r.poll_results = poll_results)
    /\ [][\A k \in DOMAIN poll_results :
            k \in DOMAIN poll_results' /\ poll_results'[k] >= poll_results[k]]_vars

\* a vote was refused with ArithmeticOverflow on a poll whose votes all went to
\* one option, and that option's counter still holds the maximum
C14_Witness ==
    /\ last.op = "vote" /\ last.ret = Err("ArithmeticOverflow")
    /\ \E opt \in VoteChoices :
          /\ <<last.poll_id, opt>> \in DOMAIN poll_results
          /\ poll_results[<<last.poll_id, opt>>] = U32_MAX
          /\ \A k \in DOMAIN poll_results : k[1] = last.poll_id => k[2] = opt

\* the buffer has the 8 bytes of the two length fields, and the proof length it
\* declares, with the 4 bytes before it and the 4 after, passes its end
ProofLenPastEnd(proof_bytes) ==
    /\ Len(proof_bytes) >= MIN_BUFFER_LEN
    /\ WordLess(Word(Len(proof_bytes)),
                WordAdd(WordAdd(Word(4), from_le_bytes(proof_bytes, 0)), Word(4)))

\* C15: on every build and for every buffer the decoder returns and does not
\* panic, and a buffer shorter than 8 bytes, or one whose declared proof length
\* (any 32-bit value) passes the end of the buffer, is answered with the
\* deserialization error.
C15_DecodeNeverPanics ==
    decoded.is_some =>
        LET proof_bytes == decoded.value.proof_bytes
            result == decoded.value.result
        IN  /\ result # Panic
            /\ (Len(proof_bytes) < MIN_BUFFER_LEN \/ ProofLenPastEnd(proof_bytes))
                  => result = None

\* C16: every poll in the poll table has at least one option label.
C16_EveryPollHasAnOption ==
    \A p \in DOMAIN polls : Len(polls[p].options) >= 1

\* what the claimed order of checks makes of vote(p, pd) in the current state
FirstFailure(p, pd) ==
    IF p \notin DOMAIN polls THEN Err("PollNotFound")
    ELSE IF ~polls[p].is_active \/ block_number > polls[p].end_block THEN Err("PollEnded")
    ELSE IF Consumed(p, pd.nullifier) THEN Err("NullifierAlreadyUsed")
    ELSE IF pd.vote_choice >= Len(polls[p].options) THEN Err("InvalidVoteChoice")
    ELSE IF pd.nullifier = ZeroNullifier THEN Err("InvalidNullifierFormat")
    ELSE LET noir_proof == deserialized[build][pd.proof] IN
    IF noir_proof = None THEN Err("ProofDeserializationError")
    ELSE IF \/ noir_proof.value.public_inputs # construct_public_inputs(polls[p], pd)
            \/ ~basic_proof_validation(noir_proof.value)
            \/ ~has_verification_key
         THEN Err("InvalidProof")
    ELSE IF \/ MapGet(poll_results, <<p, pd.vote_choice>>, 0) = U32_MAX
            \/ polls[p].total_votes = U32_MAX
         THEN Err("ArithmeticOverflow")
    ELSE Ok(Unit)

\* C17: vote returns the error of the first check that fails in the order
\* PollNotFound, PollEnded, NullifierAlreadyUsed, InvalidVoteChoice,
\* InvalidNullifierFormat, ProofDeserializationError, InvalidProof (public inputs
\* that do not match, a proof that fails the structural validation, or no
\* verification key), ArithmeticOverflow, and Ok when none fails.
C17_FirstFailingCheckIsReported ==
    \A p \in PollIds, pd \in ProofDatas : vote(p, pd).ret = FirstFailure(p, pd)

\* a vote with a malformed buffer, made while no verification key was stored,
\* was answered with the deserialization error, the earlier of the two
C17_Witness ==
    /\ last.op = "vote" /\ last.ret = Err("ProofDeserializationError")
    /\ ~has_verification_key
    /\ last.poll_id \in DOMAIN polls /\ Open(last.poll_id)

\* C18: once a vote on poll p with proof bytes B and nullifier n has returned
\* Ok, no vote on p that submits the same bytes B with another nullifier
\* returns Ok, whichever bytes of the nullifier differ.
C18_ProofBoundToOneNullifier ==
    \A a \in accepted, pd \in ProofDatas :
        (pd.proof = a.proof /\ pd.nullifier # a.nullifier)
            => ~vote(a.poll_id, pd).ret.is_ok

\* C19: for every stored poll, total_votes is the number of nullifiers consumed
\* for it, and the all-zero nullifier is consumed for no poll.
C19_TotalIsConsumedCount ==
    /\ \A p \in DOMAIN polls :
          polls[p].total_votes = Cardinality({n \in Nullifiers : is_nullifier_used(p, n)})
    /\ \A p \in PollIds : ~is_nullifier_used(p, ZeroNullifier)

\* C20: a closed poll stays closed.  No step turns a poll's is_active from
\* false to true; a poll that is inactive or past its end block is so after every
\* step (the block number does not decrease) and every vote on it fails, so that
\* after a vote rejected with PollEnded no vote on that poll succeeds; and
\* end_poll by the creator on a poll that is already inactive returns Ok and
\* leaves the record, is_active and total_votes included, as it is.
C20_ClosedStaysClosed ==
    /\ [][\A p \in DOMAIN polls :
            /\ ~polls[p].is_active => (p \in DOMAIN polls' /\ ~polls'[p].is_active)
            /\ ~Open(p) => (p \in DOMAIN polls' /\ ~Open(p)')]_vars
    /\ [][(IsCall("vote") /\ last'.ret = Err("PollEnded")) => ~Open(last'.poll_id)]_vars
    /\ [](\A p \in DOMAIN polls, pd \in ProofDatas : ~Open(p) => ~vote(p, pd).ret.is_ok)
    /\ [](\A p \in DOMAIN polls :
            ~polls[p].is_active =>
                LET r == end_poll(polls[p].creator, p) IN
                r.ret = Ok(Unit) /\ r.polls = polls)


====
